---- MODULE Spec2Model ----
(***************************************************************************)
(* invenio_indexer.api: RecordIndexer.                                     *)
(*                                                                         *)
(* The indexer writes records to a search index either directly (index,    *)
(* delete, index_by_id, delete_by_id) or through a message queue           *)
(* (bulk_index, bulk_delete -> _bulk_op) that process_bulk_queue drains.   *)
(* The drain feeds the generator _actionsiter to the bulk helper: every    *)
(* pull of the helper resumes the generator, which acks the message whose  *)
(* action it yielded last, then consumes messages until one translates to  *)
(* an action (yield) or the queue is empty.                                *)
(*                                                                         *)
(* The record store, the search engine, the bulk helper and the transport  *)
(* are collaborators of the module.  They are modelled by their contract:  *)
(* the bulk helper may write the actions it has pulled at any moment it    *)
(* has control (its chunking is its own), and an engine write may raise.   *)
(***************************************************************************)
EXTENDS Integers, Sequences, FiniteSets, TLC

\* ------------------------------------------------------------------ bounds
\* The highest revision a record reaches, and the number of messages published.
MaxRev == 1
MaxMsgs == 2

\* Two records: record 1 carries a schema that maps to an index, record 2
\* carries none.  No operation of the indexer relates two records.
Ids == {1, 2}
Revs == 0..MaxRev
Consumers == {"c1", "c2"}

None == "None"
\* The exception a record lookup raises, and the engine's absent document.
NoResultFound == [raised |-> "NoResultFound"]
NoDoc == [found |-> FALSE]

\* ------------------------------------------------------- configuration
INDEXER_DEFAULT_INDEX == "records"
INDEXER_DEFAULT_DOCTYPE == "record"

ArticlesTarget == <<"articles", "article">>
DefaultTarget == <<INDEXER_DEFAULT_INDEX, INDEXER_DEFAULT_DOCTYPE>>
Targets == {ArticlesTarget, DefaultTarget}

VersionTypeArgs == {None, "external"}

VARIABLES
    version_type,   \* the version_type argument the indexer was constructed with
    exchange,       \* the exchange argument the indexer was constructed with
    queue,          \* the queue argument the indexer was constructed with
    routing_key,    \* the routing_key argument the indexer was constructed with
    store,          \* record store: id -> [exists, revision_id]
    es,             \* search engine: <<index, doctype, doc id>> -> document or NoDoc
    attempted,      \* per engine key, the highest index version the engine evaluated
    msgs,           \* every message published, with its transport state
    pc,             \* per consumer: idle | fetch | yielded | done
    cur,            \* per consumer: the message whose action the generator yielded
    stream,         \* per consumer: the actions the generator yielded in this drain
    written,        \* per consumer: how many of them the bulk helper has written
    count           \* per consumer: <<success, failed>> of the running bulk call

vars == <<version_type, exchange, queue, routing_key, store, es, attempted, msgs, pc, cur, stream, written, count>>

\* ------------------------------------------------------------ records
\* str(uuid): the document id and the payload id are the identifier's string.
str(i) == ToString(i)

DocIds == {str(i) : i \in Ids}
EsKeys == {<<t[1], t[2], d>> : t \in Targets, d \in DocIds}

\* The record's $schema attribute; a record without one has ''.
RecordSchema(i) == IF i % 2 = 1 THEN "articles-v1.0.0.json" ELSE ""

\* A Record instance: revision v of record i.  record.dumps() is its json.
RecordAt(i, v) ==
    [id |-> i, revision_id |-> v,
     json |-> [schema |-> RecordSchema(i), control |-> i, rev |-> v]]

\* Record.get_record(id): the record as stored now, or NoResultFound.
get_record(sid) ==
    IF \E i \in Ids : str(i) = sid /\ store[i].exists
    THEN LET i == CHOOSE i \in Ids : str(i) = sid
         IN RecordAt(i, store[i].revision_id)
    ELSE NoResultFound

\* invenio_search.utils.schema_to_index: a lookup of the schema's index.
schema_to_index(schema) ==
    CASE schema = "articles-v1.0.0.json" -> ArticlesTarget
      [] schema = "authors-v1.0.0.json" -> <<"authors", None>>
      [] schema = "drafts-v1.0.0.json" -> <<None, "draft">>
      [] OTHER -> <<None, None>>

\* Python truthiness of an optional string.
Truthy(x) == x \notin {None, ""}

\* A resolver that ignores the schema.
_record_to_index_default(record) ==
    <<INDEXER_DEFAULT_INDEX, INDEXER_DEFAULT_DOCTYPE>>

\* A resolver that is content with an index and does not look at the doctype.
_record_to_index_partial(record) ==
    LET t == schema_to_index(record.json.schema)
    IN IF Truthy(t[1])
       THEN <<t[1], t[2]>>
       ELSE <<INDEXER_DEFAULT_INDEX, INDEXER_DEFAULT_DOCTYPE>>

_record_to_index(record) ==
    LET t == schema_to_index(record.json.schema)
    IN IF Truthy(t[1]) /\ Truthy(t[2])
       THEN <<t[1], t[2]>>
       ELSE <<INDEXER_DEFAULT_INDEX, INDEXER_DEFAULT_DOCTYPE>>

\* A default that makes the engine skip the version check.
_version_type_force == IF Truthy(version_type) THEN version_type ELSE "force"

\* self._version_type = version_type or 'external_gte'
_version_type == IF Truthy(version_type) THEN version_type ELSE "external_gte"

\* A serialization that hands out the body of the record's first revision.
_prepare_record_first_revision(record) == [record.json EXCEPT !.rev = 0]

\* record.dumps(), then the before_record_index signal (no receiver connected).
_prepare_record(record) == record.json

\* ------------------------------------------------------ search engine
\* Whether the engine accepts an index write of `version` over document `doc`.
EsAccepts(doc, version, vtype) ==
    \/ doc = NoDoc
    \/ vtype = "external_gte" /\ version >= doc.version
    \/ vtype = "external" /\ version > doc.version
    \/ vtype = "force"

EsKey(index, doctype, id) == <<index, doctype, id>>

\* client.index(id, version, version_type, index, doctype, body): the index after it.
EsIndex(e, id, version, vtype, index, doctype, body) ==
    LET k == EsKey(index, doctype, id)
    IN IF EsAccepts(e[k], version, vtype)
       THEN [e EXCEPT ![k] = [version |-> version, source |-> body]]
       ELSE e

EsIndexStatus(e, id, version, vtype, index, doctype) ==
    LET k == EsKey(index, doctype, id)
    IN IF e[k] = NoDoc THEN "created"
       ELSE IF EsAccepts(e[k], version, vtype) THEN "updated" ELSE "conflict"

\* client.delete(id, index, doctype): the index after it.
EsDelete(e, id, index, doctype) ==
    [e EXCEPT ![EsKey(index, doctype, id)] = NoDoc]

EsDeleteStatus(e, id, index, doctype) ==
    IF e[EsKey(index, doctype, id)] = NoDoc THEN "not_found" ELSE "deleted"

NoteAttempt(a, k, version) == [a EXCEPT ![k] = IF version > @ THEN version ELSE @]

\* --------------------------------------------------- synchronous path
\* A synchronous write that bypasses the version check.
IndexRequest_unversioned(record) ==
    LET t == _record_to_index(record)
    IN [id |-> str(record.id),
        version |-> record.revision_id,
        version_type |-> "force",
        index |-> t[1],
        doctype |-> t[2],
        body |-> _prepare_record(record)]

\* The write index(record) issues: the arguments of client.index.
IndexRequest(record) ==
    LET t == _record_to_index(record)
    IN [id |-> str(record.id),
        version |-> record.revision_id,
        version_type |-> _version_type,
        index |-> t[1],
        doctype |-> t[2],
        body |-> _prepare_record(record)]

\* A delete that sends the record's revision along.
DeleteRequest_versioned(record) ==
    LET t == _record_to_index(record)
    IN [id |-> str(record.id), index |-> t[1], doctype |-> t[2],
        version |-> record.revision_id, version_type |-> _version_type]

\* The write delete(record) issues: the arguments of client.delete.
DeleteRequest(record) ==
    LET t == _record_to_index(record)
    IN [id |-> str(record.id), index |-> t[1], doctype |-> t[2]]

ClientIndex(r) ==
    /\ es' = EsIndex(es, r.id, r.version, r.version_type, r.index, r.doctype, r.body)
    /\ attempted' = NoteAttempt(attempted, EsKey(r.index, r.doctype, r.id), r.version)

ClientDelete(r) ==
    /\ es' = EsDelete(es, r.id, r.index, r.doctype)
    /\ UNCHANGED attempted

\* index(record): the caller holds a Record instance, which may be an older
\* revision than the one the store holds by now.
index(record) ==
    /\ ClientIndex(IndexRequest(record))
    /\ UNCHANGED <<version_type, exchange, queue, routing_key, store, msgs, pc, cur, stream, written, count>>

\* index_by_id(record_uuid): raises NoResultFound when the record is gone.
index_by_id(record_uuid) ==
    /\ get_record(str(record_uuid)) # NoResultFound
    /\ index(get_record(str(record_uuid)))

delete(record) ==
    /\ ClientDelete(DeleteRequest(record))
    /\ UNCHANGED <<version_type, exchange, queue, routing_key, store, msgs, pc, cur, stream, written, count>>

delete_by_id(record_uuid) ==
    /\ get_record(str(record_uuid)) # NoResultFound
    /\ delete(get_record(str(record_uuid)))

\* ------------------------------------------------------- record store
\* A writer commits a new revision of a record (the revision only grows).
RecordCommit(i) ==
    /\ store[i].exists
    /\ store[i].revision_id < MaxRev
    /\ store' = [store EXCEPT ![i].revision_id = @ + 1]
    /\ UNCHANGED <<version_type, exchange, queue, routing_key, es, attempted, msgs, pc, cur, stream, written, count>>

\* A writer deletes a record from the store.
RecordDelete(i) ==
    /\ store[i].exists
    /\ store' = [store EXCEPT ![i].exists = FALSE]
    /\ UNCHANGED <<version_type, exchange, queue, routing_key, es, attempted, msgs, pc, cur, stream, written, count>>

\* ---------------------------------------------------------- publisher
\* current_app.config: the message queue the application configures.
INDEXER_MQ_EXCHANGE == "indexer_exchange"
INDEXER_MQ_QUEUE == "indexer_queue"
INDEXER_MQ_ROUTING_KEY == "indexer_key"

\* The values a caller may give the constructor for its message queue.
MqArgs ==
    [exchange : {None, "my_exchange"}, queue : {None, "my_queue"},
     routing_key : {None, "my_key"}]

\* __init__: self._exchange = None, self._queue = None, self._routing_key = None.
_exchange == None
_queue == None
_routing_key == None

\* The properties mq_exchange, mq_queue, mq_routing_key.
mq_exchange == IF Truthy(_exchange) THEN _exchange ELSE INDEXER_MQ_EXCHANGE
mq_queue == IF Truthy(_queue) THEN _queue ELSE INDEXER_MQ_QUEUE
mq_routing_key == IF Truthy(_routing_key) THEN _routing_key ELSE INDEXER_MQ_ROUTING_KEY

OpTypes == {"index", "create", "delete", "update"}

\* producer.publish(dict(id=str(rec), op=op_type, index=index, doctype=doctype))
\* of a Producer on mq_exchange with mq_routing_key, as the transport holds it:
\* ready, not yet delivered.
Message(rec, op_type, index_, doctype_) ==
    [id |-> str(rec), op |-> op_type, index |-> index_, doctype |-> doctype_,
     exchange |-> mq_exchange, routing_key |-> mq_routing_key,
     st |-> "ready", acks |-> 0, rejects |-> 0, yielded |-> FALSE, raised |-> FALSE,
     rev_at_publish |-> store[rec].revision_id]

_bulk_op(record_id_iterator, op_type, index_, doctype_) ==
    /\ op_type \in OpTypes
    /\ Len(msgs) + Len(record_id_iterator) <= MaxMsgs
    /\ msgs' = msgs \o [k \in 1..Len(record_id_iterator) |->
                           Message(record_id_iterator[k], op_type, index_, doctype_)]
    /\ UNCHANGED <<version_type, exchange, queue, routing_key, store, es, attempted, pc, cur, stream, written, count>>

bulk_index(record_id_iterator) == _bulk_op(record_id_iterator, "index", None, None)

\* A bulk_delete that publishes index requests.
bulk_delete_as_index(record_id_iterator) == _bulk_op(record_id_iterator, "index", None, None)

bulk_delete(record_id_iterator) == _bulk_op(record_id_iterator, "delete", None, None)

\* The identifier sequences a caller passes: up to the room the model has left.
IdSeqs == UNION {[1..n -> Ids] : n \in 1..MaxMsgs}

\* ----------------------------------------------------------- translator
\* message.decode(): the payload of a message.
decode(message) ==
    [id |-> message.id, op |-> message.op, index |-> message.index,
     doctype |-> message.doctype]

\* A delete translator that falls back to the default target when the record
\* is gone, instead of raising.
_delete_action_lenient(payload) ==
    IF Truthy(payload.index) /\ Truthy(payload.doctype)
    THEN [_op_type |-> "delete", _index |-> payload.index, _type |-> payload.doctype,
          _id |-> payload.id]
    ELSE LET record == get_record(payload.id)
             t == IF record = NoResultFound THEN DefaultTarget
                  ELSE _record_to_index(record)
         IN [_op_type |-> "delete", _index |-> t[1], _type |-> t[2],
             _id |-> payload.id]

\* A delete translator that loads the record whatever the payload carries.
_delete_action_always_loads(payload) ==
    LET record == get_record(payload.id)
    IN IF record = NoResultFound
       THEN NoResultFound
       ELSE [_op_type |-> "delete", _index |-> _record_to_index(record)[1],
             _type |-> _record_to_index(record)[2], _id |-> payload.id]

\* The bulk 'delete' action of a payload, or NoResultFound.
_delete_action(payload) ==
    IF Truthy(payload.index) /\ Truthy(payload.doctype)
    THEN [_op_type |-> "delete", _index |-> payload.index, _type |-> payload.doctype,
          _id |-> payload.id]
    ELSE LET record == get_record(payload.id)
         IN IF record = NoResultFound
            THEN NoResultFound
            ELSE LET t == _record_to_index(record)
                 IN [_op_type |-> "delete", _index |-> t[1], _type |-> t[2],
                     _id |-> payload.id]

\* An index translator with the version type written into it.
_index_action_fixed_version_type(payload) ==
    LET record == get_record(payload.id)
    IN IF record = NoResultFound
       THEN NoResultFound
       ELSE LET t == _record_to_index(record)
            IN [_op_type |-> "index", _index |-> t[1], _type |-> t[2],
                _id |-> str(record.id),
                _version |-> record.revision_id,
                _version_type |-> "external_gte",
                _source |-> _prepare_record(record)]

\* An index translator whose actions bypass the version check.
_index_action_unversioned(payload) ==
    LET record == get_record(payload.id)
    IN IF record = NoResultFound
       THEN NoResultFound
       ELSE LET t == _record_to_index(record)
            IN [_op_type |-> "index", _index |-> t[1], _type |-> t[2],
                _id |-> str(record.id),
                _version |-> record.revision_id,
                _version_type |-> "force",
                _source |-> _prepare_record(record)]

\* An index translator that does not consult the resolver.
_index_action_default_target(payload) ==
    LET record == get_record(payload.id)
    IN IF record = NoResultFound
       THEN NoResultFound
       ELSE [_op_type |-> "index", _index |-> INDEXER_DEFAULT_INDEX,
             _type |-> INDEXER_DEFAULT_DOCTYPE,
             _id |-> str(record.id),
             _version |-> record.revision_id,
             _version_type |-> _version_type,
             _source |-> _prepare_record(record)]

\* The bulk 'index' action of a payload, or NoResultFound.
_index_action(payload) ==
    LET record == get_record(payload.id)
    IN IF record = NoResultFound
       THEN NoResultFound
       ELSE LET t == _record_to_index(record)
            IN [_op_type |-> "index", _index |-> t[1], _type |-> t[2],
                _id |-> str(record.id),
                _version |-> record.revision_id,
                _version_type |-> _version_type,
                _source |-> _prepare_record(record)]

\* A translator that takes only 'index' for an index operation.
Translate_index_only(payload) ==
    IF payload.op = "index" THEN _index_action(payload) ELSE _delete_action(payload)

\* The body of the try block of _actionsiter: what the message translates to.
Translate(payload) ==
    IF payload.op = "delete" THEN _delete_action(payload) ELSE _index_action(payload)

\* message.ack() / message.reject() on message m.
ack(ms, m) == [ms EXCEPT ![m].st = "acked", ![m].acks = @ + 1]

reject(ms, m) == [ms EXCEPT ![m].st = "rejected", ![m].rejects = @ + 1]

\* A handler that settles the failed message as a success.
OnNoResultFound_ack(ms, m) == ack(ms, m)

\* except NoResultFound: message.reject()
OnNoResultFound(ms, m) == reject(ms, m)

\* The statement after the yield, run when the generator is resumed.
OnResume(ms, m) == ack(ms, m)

\* The connection closes: a message delivered and not settled is ready again.
requeue(ms, m) == IF m # 0 /\ ms[m].st = "unacked" THEN [ms EXCEPT ![m].st = "ready"] ELSE ms

\* -------------------------------------------------------------- consumer
\* The Consumer of process_bulk_queue is bound to mq_queue on mq_exchange
\* with mq_routing_key: it is delivered the messages published there.
Routed(message) ==
    message.exchange = mq_exchange /\ message.routing_key = mq_routing_key

\* process_bulk_queue: the consumer is bound and bulk() starts pulling.
process_bulk_queue(c) ==
    /\ pc[c] = "idle"
    /\ pc' = [pc EXCEPT ![c] = "fetch"]
    /\ UNCHANGED <<version_type, exchange, queue, routing_key, store, es, attempted, msgs, cur, stream, written, count>>

\* _actionsiter, one turn of the for loop: the transport delivers a ready
\* message (in any order), which is translated; an action is yielded to the
\* bulk helper, a NoResultFound rejects the message and the loop goes on.
actionsiter_message(c, m) ==
    /\ pc[c] = "fetch"
    /\ msgs[m].st = "ready"
    /\ Routed(msgs[m])
    /\ LET a == Translate(decode(msgs[m]))
       IN IF a = NoResultFound
          THEN /\ msgs' = OnNoResultFound(msgs, m)
               /\ UNCHANGED <<pc, cur, stream>>
          ELSE /\ msgs' = [msgs EXCEPT ![m].st = "unacked", ![m].yielded = TRUE]
               /\ pc' = [pc EXCEPT ![c] = "yielded"]
               /\ cur' = [cur EXCEPT ![c] = m]
               /\ stream' = [stream EXCEPT ![c] = Append(@, [mid |-> m, action |-> a])]
    /\ UNCHANGED <<version_type, exchange, queue, routing_key, store, es, attempted, written, count>>

\* _actionsiter resumed by the next pull of the bulk helper: message.ack().
actionsiter_resume(c) ==
    /\ pc[c] = "yielded"
    /\ msgs' = OnResume(msgs, cur[c])
    /\ pc' = [pc EXCEPT ![c] = "fetch"]
    /\ cur' = [cur EXCEPT ![c] = 0]
    /\ UNCHANGED <<version_type, exchange, queue, routing_key, store, es, attempted, stream, written, count>>

\* A generator that ends while messages are still waiting.
actionsiter_exhausted_early(c) ==
    /\ pc[c] = "fetch"
    /\ pc' = [pc EXCEPT ![c] = "done"]
    /\ UNCHANGED <<version_type, exchange, queue, routing_key, store, es, attempted, msgs, cur, stream, written, count>>

\* A handler that takes any error of the translation for a missing record.
OnError_reject(ms, m) == [reject(ms, m) EXCEPT ![m].raised = TRUE]

\* An error other than NoResultFound leaves the try block of _actionsiter
\* uncaught: the message was delivered and is neither acked nor rejected, so
\* it is ready again once the connection closes.
OnError(ms, m) == [ms EXCEPT ![m].st = "ready", ![m].raised = TRUE]

\* _actionsiter, a turn of the for loop in which the translation raises an
\* error other than NoResultFound, from _prepare_record (record.dumps() or a
\* receiver of before_record_index): it goes through bulk() and out of
\* process_bulk_queue; the actions pulled and not yet written are dropped.
actionsiter_raises(c, m) ==
    /\ pc[c] = "fetch"
    /\ msgs[m].st = "ready"
    /\ Routed(msgs[m])
    /\ msgs[m].op # "delete"
    /\ get_record(msgs[m].id) # NoResultFound
    /\ msgs' = OnError(msgs, m)
    /\ pc' = [pc EXCEPT ![c] = "idle"]
    /\ stream' = [stream EXCEPT ![c] = <<>>]
    /\ written' = [written EXCEPT ![c] = 0]
    /\ count' = [count EXCEPT ![c] = <<0, 0>>]
    /\ UNCHANGED <<version_type, exchange, queue, routing_key, store, es, attempted, cur>>

\* iterqueue() finds the queue empty: the generator is exhausted.
actionsiter_exhausted(c) ==
    /\ pc[c] = "fetch"
    /\ \A m \in 1..Len(msgs) : Routed(msgs[m]) => msgs[m].st # "ready"
    /\ pc' = [pc EXCEPT ![c] = "done"]
    /\ UNCHANGED <<version_type, exchange, queue, routing_key, store, es, attempted, msgs, cur, stream, written, count>>

\* The engine request the bulk helper makes of an action.
BulkRequest(a) ==
    IF a._op_type = "index"
    THEN [id |-> a._id, version |-> a._version, version_type |-> a._version_type,
          index |-> a._index, doctype |-> a._type, body |-> a._source]
    ELSE [id |-> a._id, index |-> a._index, doctype |-> a._type]

\* The index after the engine has processed the item of an action.
BulkApply(e, a) ==
    LET r == BulkRequest(a)
    IN IF a._op_type = "index"
       THEN EsIndex(e, r.id, r.version, r.version_type, r.index, r.doctype, r.body)
       ELSE EsDelete(e, r.id, r.index, r.doctype)

\* What the bulk helper sends the engine for an action.
BulkWrite(a) ==
    IF a._op_type = "index" THEN ClientIndex(BulkRequest(a))
    ELSE ClientDelete(BulkRequest(a))

\* The status the engine gives the item of an action, on index e.
ItemStatus(e, a) ==
    IF a._op_type = "index"
    THEN EsIndexStatus(e, a._id, a._version, a._version_type, a._index, a._type)
    ELSE EsDeleteStatus(e, a._id, a._index, a._type)

\* The helper counts an item as a success when its status is a 2xx.
ItemOk(status) == status \in {"created", "updated", "deleted"}

\* bulk(): the helper, holding control (the generator is suspended at a yield
\* or exhausted), writes the oldest action it has pulled and not yet written.
\* A refused item is noted; the items of a chunk are all processed.
bulk_write(c) ==
    /\ pc[c] \in {"yielded", "done"}
    /\ written[c] < Len(stream[c])
    /\ BulkWrite(stream[c][written[c] + 1].action)
    /\ written' = [written EXCEPT ![c] = @ + 1]
    /\ count' = [count EXCEPT ![c] = IF ItemOk(ItemStatus(es, stream[c][written[c] + 1].action))
                                      THEN <<@[1] + 1, @[2]>>
                                      ELSE <<@[1], @[2] + 1>>]
    /\ UNCHANGED <<version_type, exchange, queue, routing_key, store, msgs, pc, cur, stream>>

\* bulk(): the engine-side write of the oldest unwritten action raises (the
\* engine may or may not have applied it).  The exception leaves
\* process_bulk_queue, the connection closes, and the message still unsettled
\* is delivered again later.
bulk_write_raises(c) ==
    /\ pc[c] \in {"yielded", "done"}
    /\ written[c] < Len(stream[c])
    /\ msgs' = requeue(msgs, cur[c])
    /\ pc' = [pc EXCEPT ![c] = "idle"]
    /\ cur' = [cur EXCEPT ![c] = 0]
    /\ stream' = [stream EXCEPT ![c] = <<>>]
    /\ written' = [written EXCEPT ![c] = 0]
    /\ count' = [count EXCEPT ![c] = <<0, 0>>]
    /\ \/ BulkWrite(stream[c][written[c] + 1].action)
       \/ UNCHANGED <<es, attempted>>
    /\ UNCHANGED <<version_type, exchange, queue, routing_key, store>>

\* bulk() is called with stats_only alone, so the helper keeps its default of
\* raising when the engine has refused an item of the chunk it sent.
raise_on_error == TRUE

\* bulk(): the helper has had the answer of the engine for the chunk it sent,
\* an item of which was refused, and raises BulkIndexError.  The exception
\* leaves process_bulk_queue like any other: the connection closes and the
\* message still unsettled is delivered again later.
bulk_index_error(c) ==
    /\ raise_on_error
    /\ pc[c] \in {"yielded", "done"}
    /\ count[c][2] > 0
    /\ msgs' = requeue(msgs, cur[c])
    /\ pc' = [pc EXCEPT ![c] = "idle"]
    /\ cur' = [cur EXCEPT ![c] = 0]
    /\ stream' = [stream EXCEPT ![c] = <<>>]
    /\ written' = [written EXCEPT ![c] = 0]
    /\ count' = [count EXCEPT ![c] = <<0, 0>>]
    /\ UNCHANGED <<version_type, exchange, queue, routing_key, store, es, attempted>>

\* A call that closes the consumer and returns once the helper has written
\* what it pulled, the generator exhausted or not.
process_bulk_queue_return_early(c) ==
    /\ pc[c] \in {"yielded", "done"}
    /\ written[c] = Len(stream[c])
    /\ raise_on_error => count[c][2] = 0
    /\ pc' = [pc EXCEPT ![c] = "idle"]
    /\ stream' = [stream EXCEPT ![c] = <<>>]
    /\ written' = [written EXCEPT ![c] = 0]
    /\ count' = [count EXCEPT ![c] = <<0, 0>>]
    /\ UNCHANGED <<version_type, exchange, queue, routing_key, store, es, attempted, msgs, cur>>

\* bulk() returns its counts; consumer.close(); return count.  The generator
\* and the counts are locals of the call: count[c] is what this step returns.
process_bulk_queue_return(c) ==
    /\ pc[c] = "done"
    /\ written[c] = Len(stream[c])
    /\ raise_on_error => count[c][2] = 0
    /\ pc' = [pc EXCEPT ![c] = "idle"]
    /\ stream' = [stream EXCEPT ![c] = <<>>]
    /\ written' = [written EXCEPT ![c] = 0]
    /\ count' = [count EXCEPT ![c] = <<0, 0>>]
    /\ UNCHANGED <<version_type, exchange, queue, routing_key, store, es, attempted, msgs, cur>>

\* ------------------------------------------------------- specification


Init ==
    /\ version_type = None
    /\ exchange = None /\ queue = None /\ routing_key = None
    /\ store = [i \in Ids |-> [exists |-> TRUE, revision_id |-> 0]]
    /\ es = [k \in EsKeys |-> NoDoc]
    /\ attempted = [k \in EsKeys |-> -1]
    /\ msgs = <<>>
    /\ pc = [c \in Consumers |-> "idle"]
    /\ cur = [c \in Consumers |-> 0]
    /\ stream = [c \in Consumers |-> <<>>]
    /\ written = [c \in Consumers |-> 0]
    /\ count = [c \in Consumers |-> <<0, 0>>]

\* Requests published through the public interface.
Publish ==
    \E ids \in IdSeqs : bulk_index(ids) \/ bulk_delete(ids)

\* A delete request published with its index and doctype resolved beforehand.
PublishResolved ==
    \E ids \in IdSeqs, t \in Targets : _bulk_op(ids, "delete", t[1], t[2])

Drain(c) ==
    \/ process_bulk_queue(c)
    \/ \E m \in 1..Len(msgs) : actionsiter_message(c, m)
    \/ actionsiter_resume(c)
    \/ actionsiter_exhausted(c)
    \/ bulk_write(c)
    \/ bulk_write_raises(c)
    \/ bulk_index_error(c)
    \/ process_bulk_queue_return(c)

\* The drain: requests are published, records disappear from the store, and
\* one consumer drains the queue, any number of times.
Next ==
    \/ \E i \in Ids : RecordDelete(i)
    \/ Publish
    \/ PublishResolved
    \/ Drain("c1")

Spec == Init /\ [][Next]_vars

\* Concurrent writers to the index: the indexer is constructed with any
\* version_type argument; records get new revisions; callers index Record
\* instances they hold (the current revision or an older one) or index by
\* id; index requests are published, and the consumer loops drain them.
InitIndex ==
    /\ version_type \in VersionTypeArgs
    /\ exchange = None /\ queue = None /\ routing_key = None
    /\ store = [i \in Ids |-> [exists |-> TRUE, revision_id |-> 0]]
    /\ es = [k \in EsKeys |-> NoDoc]
    /\ attempted = [k \in EsKeys |-> -1]
    /\ msgs = <<>>
    /\ pc = [c \in Consumers |-> "idle"]
    /\ cur = [c \in Consumers |-> 0]
    /\ stream = [c \in Consumers |-> <<>>]
    /\ written = [c \in Consumers |-> 0]
    /\ count = [c \in Consumers |-> <<0, 0>>]

\* The writers contend for the document of one record.
Contended == {1}
ContendedSeqs == UNION {[1..n -> Contended] : n \in 1..MaxMsgs}

SyncIndex ==
    \E i \in Contended : \E v \in 0..store[i].revision_id : index(RecordAt(i, v))

NextIndex ==
    \/ \E i \in Contended : RecordCommit(i)
    \/ SyncIndex
    \/ \E i \in Contended : index_by_id(i)
    \/ \E ids \in ContendedSeqs : bulk_index(ids)
    \/ \E c \in Consumers : Drain(c)

SpecIndex == InitIndex /\ [][NextIndex]_vars

\* A batch and its drain: documents are indexed; then, with the consumer idle,
\* records get new revisions or disappear and requests are published through
\* bulk_index and bulk_delete, each id in one request; the consumer drains.
Idle == \A c \in Consumers : pc[c] = "idle"

\* Identifier sequences without repetition whose ids no request uses yet.
FreshIdSeqs ==
    {ids \in IdSeqs :
        /\ \A j, k \in 1..Len(ids) : j # k => ids[j] # ids[k]
        /\ \A j \in 1..Len(ids) : \A m \in 1..Len(msgs) : msgs[m].id # str(ids[j])}

NextBulk ==
    \/ msgs = <<>> /\ \E i \in Ids : index_by_id(i)
    \/ Idle /\ \E i \in Ids : RecordCommit(i)
    \/ Idle /\ \E i \in Ids : RecordDelete(i)
    \/ Idle /\ \E ids \in FreshIdSeqs : bulk_index(ids)
    \/ Idle /\ \E ids \in FreshIdSeqs : bulk_delete(ids)
    \/ Drain("c1")

SpecBulk == Init /\ [][NextBulk]_vars

\* The resolver on its own: callers hand index and delete Record instances
\* with any $schema attribute: none, one the search configuration knows, one
\* it knows in part, one it does not know.
Schemas ==
    {"", "articles-v1.0.0.json", "authors-v1.0.0.json", "drafts-v1.0.0.json",
     "unknown-v1.0.0.json"}

ResolverRecords ==
    {[id |-> i, revision_id |-> v, json |-> [schema |-> sch, control |-> i, rev |-> v]] :
        i \in Ids, v \in Revs, sch \in Schemas}

NextResolver ==
    \/ \E record \in ResolverRecords : index(record)
    \/ \E record \in ResolverRecords : delete(record)

SpecResolver == Init /\ [][NextResolver]_vars

\* An indexer constructed with message queue arguments publishes requests
\* for one record and drains them.
InitMq ==
    /\ version_type = None
    /\ \E a \in MqArgs :
          exchange = a.exchange /\ queue = a.queue /\ routing_key = a.routing_key
    /\ store = [i \in Ids |-> [exists |-> TRUE, revision_id |-> 0]]
    /\ es = [k \in EsKeys |-> NoDoc]
    /\ attempted = [k \in EsKeys |-> -1]
    /\ msgs = <<>>
    /\ pc = [c \in Consumers |-> "idle"]
    /\ cur = [c \in Consumers |-> 0]
    /\ stream = [c \in Consumers |-> <<>>]
    /\ written = [c \in Consumers |-> 0]
    /\ count = [c \in Consumers |-> <<0, 0>>]

NextMq ==
    \/ \E ids \in ContendedSeqs : bulk_index(ids)
    \/ \E ids \in ContendedSeqs : bulk_delete(ids)
    \/ Drain("c1")

SpecMq == InitMq /\ [][NextMq]_vars

\* Deletes of one record's document, synchronous (by id, or with an instance
\* of any revision) and queued, next to the writes that index it.
NextDelete ==
    \/ \E i \in Contended : RecordCommit(i)
    \/ \E i \in Contended : index_by_id(i)
    \/ \E i \in Contended : delete_by_id(i)
    \/ \E i \in Contended : \E v \in 0..store[i].revision_id : delete(RecordAt(i, v))
    \/ \E ids \in ContendedSeqs : bulk_index(ids)
    \/ \E ids \in ContendedSeqs : bulk_delete(ids)
    \/ Drain("c1")

SpecDelete == Init /\ [][NextDelete]_vars

\* Requests of every operation type for one record, published through
\* _bulk_op, and a caller that tries an operation _bulk_op does not know.
CallerOps == OpTypes \cup {"upsert"}

NextOps ==
    \/ \E ids \in ContendedSeqs : \E op \in CallerOps : _bulk_op(ids, op, None, None)
    \/ \E i \in Contended : RecordDelete(i)
    \/ Drain("c1")

SpecOps == Init /\ [][NextOps]_vars

\* Drains in which the translation of a request may raise.  Requests are
\* published and records deleted between the drains.
NextErr ==
    \/ Idle /\ Publish
    \/ Idle /\ \E i \in Ids : RecordDelete(i)
    \/ Drain("c1")
    \/ \E m \in 1..Len(msgs) : actionsiter_raises("c1", m)

SpecErr == Init /\ [][NextErr]_vars

\* The steps of a call of process_bulk_queue in which nothing raises but
\* NoResultFound.
DrainQuietly(c) ==
    \/ process_bulk_queue(c)
    \/ \E m \in 1..Len(msgs) : actionsiter_message(c, m)
    \/ actionsiter_resume(c)
    \/ actionsiter_exhausted(c)
    \/ bulk_write(c)
    \/ process_bulk_queue_return(c)

\* Drains during which nothing is published: requests are published and
\* records deleted between the calls, and a call keeps running (the helper
\* keeps pulling and writing until the generator is exhausted).
NextLive ==
    \/ Idle /\ Publish
    \/ Idle /\ \E i \in Ids : RecordDelete(i)
    \/ DrainQuietly("c1")

SpecLive == Init /\ [][NextLive]_vars /\ WF_vars(DrainQuietly("c1"))

\* --------------------------------------------------------------- claims
Mids == 1..Len(msgs)

\* The messages whose action is in the stream of consumer c's running drain.
Streamed(c) == {stream[c][k].mid : k \in 1..Len(stream[c])}

\* C1: a message is acked at most once, only after a bulk action was produced
\* for it (the step that acks it finds it delivered, unsettled, and its action
\* in the stream of the drain that acks it); a message that produced no action
\* is never acked; no message is both acked and rejected.
C1_AckAtMostOnceAfterAction ==
    /\ [](\A m \in Mids :
            /\ msgs[m].acks <= 1
            /\ msgs[m].acks >= 1 => msgs[m].yielded
            /\ ~(msgs[m].acks >= 1 /\ msgs[m].rejects >= 1))
    /\ [][\A m \in Mids :
            msgs'[m].acks > msgs[m].acks =>
                /\ msgs[m].st = "unacked"
                /\ \E c \in Consumers : cur[c] = m /\ m \in Streamed(c)]_vars

\* C1 witness: one message acked after its action was yielded, another rejected
\* without an action.
C1_Witness ==
    \E m, n \in Mids :
        /\ msgs[m].acks = 1 /\ msgs[m].yielded /\ msgs[m].st = "acked"
        /\ msgs[n].rejects = 1 /\ ~msgs[n].yielded

\* The payload of message m carries both index and doctype.
Resolved(m) == Truthy(msgs[m].index) /\ Truthy(msgs[m].doctype)

\* The count a drain reports covers the written actions only, and no message
\* the drain rejected has an action in its stream.
CountExcludesRejected ==
    \A c \in Consumers :
        /\ count[c][1] + count[c][2] = written[c]
        /\ written[c] <= Len(stream[c])
        /\ \A m \in Streamed(c) : msgs[m].rejects = 0

\* C2 as stated: every queued request whose record does not exist at consume
\* time is rejected, puts no action in the stream, and is not counted.
C2_Original ==
    /\ []CountExcludesRejected
    /\ [][\A c \in Consumers : \A m \in Mids :
            (actionsiter_message(c, m) /\ get_record(msgs[m].id) = NoResultFound) =>
                /\ msgs'[m].st = "rejected"
                /\ stream'[c] = stream[c]]_vars

\* C2 amended: every queued request whose record does not exist at consume
\* time, and whose payload does not carry both index and doctype (every
\* request of bulk_index and bulk_delete), is rejected, puts no action in the
\* stream, and is not counted.
C2_MissingRecordRejected ==
    /\ []CountExcludesRejected
    /\ [][\A c \in Consumers : \A m \in Mids :
            (/\ actionsiter_message(c, m)
             /\ get_record(msgs[m].id) = NoResultFound
             /\ ~Resolved(m)) =>
                /\ msgs'[m].st = "rejected"
                /\ msgs'[m].rejects = 1
                /\ stream'[c] = stream[c]]_vars

\* C2 witness: a drain is about to return; it rejected the request of a
\* missing record, acked another, and counts one action for two messages.
C2_Witness ==
    /\ pc["c1"] = "done" /\ written["c1"] = Len(stream["c1"])
    /\ Len(msgs) = 2
    /\ count["c1"][1] + count["c1"][2] = 1
    /\ \E m, n \in Mids :
          /\ msgs[m].st = "rejected" /\ ~msgs[m].yielded /\ ~Resolved(m)
          /\ get_record(msgs[m].id) = NoResultFound
          /\ msgs[n].st = "acked" /\ n \in Streamed("c1")

\* C3: when the engine-side write of an action raises, the message that
\* produced the action has already been acked.
C3_AckedBeforeWriteFails ==
    [][\A c \in Consumers :
        bulk_write_raises(c) => msgs[stream[c][written[c] + 1].mid].st = "acked"]_vars

\* The engine key of record i's document, as the resolver gives it.
KeyOf(i) ==
    LET t == _record_to_index(RecordAt(i, 0)) IN <<t[1], t[2], str(i)>>

\* The action consumer c's bulk call writes next, and its engine key.
NextAction(c) == stream[c][written[c] + 1].action
ActionKey(a) == <<a._index, a._type, a._id>>

\* Consumer c's bulk call hands an action to the engine in this step.
EngineWrites(c) == bulk_write(c) \/ bulk_write_raises(c)

\* The documents the index holds under a document id.
DocsOf(e, id) == {k \in EsKeys : k[3] = id /\ e[k] # NoDoc}

\* The version type an indexer constructed with version_type is to use.
ConfiguredVersionType == IF version_type = None THEN "external_gte" ELSE version_type

\* C4: with the default version type, an index write (synchronous or bulk)
\* that carries a lower revision than the one the document is stored with is
\* not applied: no step that changes the index, revision or body, is such a
\* write.
C4_StaleWriteNotApplied ==
    [][(version_type = None /\ es' # es) =>
        /\ \A i \in Ids : \A v \in Revs :
              ~(/\ es[KeyOf(i)] # NoDoc
                /\ v < es[KeyOf(i)].version
                /\ index(RecordAt(i, v)))
        /\ \A c \in Consumers :
              ~(/\ pc[c] \in {"yielded", "done"}
                /\ written[c] < Len(stream[c])
                /\ NextAction(c)._op_type = "index"
                /\ es[ActionKey(NextAction(c))] # NoDoc
                /\ NextAction(c)._version < es[ActionKey(NextAction(c))].version
                /\ EngineWrites(c))]_vars

\* C4 witness: under the default version type a bulk call was refused the write
\* of a revision older than the one the index holds.
C4_Witness ==
    /\ version_type = None
    /\ \E c \in Consumers :
          /\ count[c][2] >= 1
          /\ \E k \in 1..written[c] :
                /\ es[ActionKey(stream[c][k].action)] # NoDoc
                /\ stream[c][k].action._version
                     < es[ActionKey(stream[c][k].action)].version

\* C5: whatever the interleaving of synchronous index calls and consumer
\* loops, with messages reordered and redelivered, the revision stored for an
\* id never decreases, and the index holds the highest revision any writer
\* handed the engine (at every moment, so also once all writers are done).
C5_RevisionNeverDecreases ==
    /\ [][\A k \in EsKeys :
            es[k] # NoDoc => (es'[k] # NoDoc /\ es'[k].version >= es[k].version)]_vars
    /\ [](\A k \in EsKeys :
            attempted[k] >= 0 => (es[k] # NoDoc /\ es[k].version = attempted[k]))

\* C5 witness: two consumer loops wrote the same document; one of them came
\* late with an older revision and was refused.
C5_Witness ==
    \E k \in EsKeys :
        /\ es[k] # NoDoc /\ es[k].version >= 1 /\ attempted[k] = es[k].version
        /\ count["c1"][2] >= 1
        /\ count["c2"][1] >= 1

\* C6: the index action of a request carries the revision and the body the
\* record store holds when the request is translated, not those of the
\* moment it was published, and the configured version type.
C6_ActionCarriesConsumeTimeRevision ==
    [][\A c \in Consumers : \A m \in Mids :
        (/\ actionsiter_message(c, m)
         /\ msgs[m].op # "delete"
         /\ get_record(msgs[m].id) # NoResultFound) =>
            LET a == stream'[c][Len(stream'[c])].action
                i == CHOOSE i \in Ids : str(i) = msgs[m].id
            IN /\ Len(stream'[c]) = Len(stream[c]) + 1
               /\ a._version = store[i].revision_id
               /\ a._source = RecordAt(i, store[i].revision_id).json
               /\ a._version_type = ConfiguredVersionType
               /\ a._version >= msgs[m].rev_at_publish]_vars

\* C6 witness: the record was updated between enqueue and drain, and the action
\* carries the newer revision and body.
C6_Witness ==
    \E c \in Consumers : \E k \in 1..Len(stream[c]) :
        /\ stream[c][k].action._op_type = "index"
        /\ stream[c][k].action._version > msgs[stream[c][k].mid].rev_at_publish
        /\ stream[c][k].action._source.rev = stream[c][k].action._version
        /\ version_type # None
        /\ stream[c][k].action._version_type = version_type

\* The bulk action of the end-to-end example, for revision v of record 1.
C7_Expected(v) ==
    [_op_type |-> "index", _index |-> "articles", _type |-> "article", _id |-> "1",
     _version |-> v, _version_type |-> ConfiguredVersionType,
     _source |-> [schema |-> "articles-v1.0.0.json", control |-> 1, rev |-> v]]

\* The queue holds one request, an index request for record 1, and consumer
\* c's running drain has its action.
C7_Single(c) ==
    Len(msgs) = 1 /\ msgs[1].op = "index" /\ msgs[1].id = "1" /\ 1 \in Streamed(c)

C8_QueuedEqualsSynchronous ==
    \A i \in Ids :
        store[i].exists =>
            LET a == _index_action([id |-> str(i), op |-> "index",
                                    index |-> None, doctype |-> None])
                r == IndexRequest(get_record(str(i)))
            IN /\ a._id = r.id
               /\ a._index = r.index
               /\ a._type = r.doctype
               /\ a._version = r.version
               /\ a._version_type = r.version_type
               /\ a._source = r.body
               /\ BulkApply(es, a)
                    = EsIndex(es, r.id, r.version, r.version_type, r.index,
                              r.doctype, r.body)

\* C8 witness: an index state the write changes: the document is indexed with
\* an older revision than the record has.
C8_Witness ==
    \E i \in Ids :
        /\ store[i].exists
        /\ es[KeyOf(i)] # NoDoc
        /\ es[KeyOf(i)].version < store[i].revision_id
        /\ version_type = "external"

\* C9: an index write (synchronous or bulk) for a record whose document is
\* stored with the same revision leaves the index as it was (no step that
\* changes the index is such a write), and there is never more than one
\* document under a record's id, exactly one once an index write was handed to
\* the engine.
C9_SameRevisionIdempotent ==
    /\ [](\A i \in Ids :
            /\ Cardinality(DocsOf(es, str(i))) <= 1
            /\ attempted[KeyOf(i)] >= 0 => DocsOf(es, str(i)) = {KeyOf(i)})
    /\ [][es' # es =>
            /\ \A i \in Ids :
                  ~(/\ es[KeyOf(i)] # NoDoc
                    /\ index(RecordAt(i, es[KeyOf(i)].version)))
            /\ \A c \in Consumers :
                  ~(/\ pc[c] \in {"yielded", "done"}
                    /\ written[c] < Len(stream[c])
                    /\ NextAction(c)._op_type = "index"
                    /\ es[ActionKey(NextAction(c))] # NoDoc
                    /\ es[ActionKey(NextAction(c))].version = NextAction(c)._version
                    /\ EngineWrites(c))]_vars

\* C9 witness: two queued requests of the same record and revision were both
\* written, and the index holds one document under the id, with that revision.
C9_Witness ==
    /\ written["c1"] = 2 /\ count["c1"] = <<2, 0>>
    /\ stream["c1"][1].action = stream["c1"][2].action
    /\ stream["c1"][1].action._op_type = "index"
    /\ Cardinality(DocsOf(es, stream["c1"][1].action._id)) = 1
    /\ es[ActionKey(stream["c1"][1].action)].version = stream["c1"][1].action._version

\* Every request of the queue was consumed by consumer c's running drain:
\* it has an action in the stream or the drain rejected it.
ConsumedAll(c) ==
    \A m \in Mids : m \in Streamed(c) \/ msgs[m].st = "rejected"

\* Each id is used in one request, published by bulk_index or bulk_delete.
EachIdOnce ==
    /\ \A m, n \in Mids : m # n => msgs[m].id # msgs[n].id
    /\ \A m \in Mids : msgs[m].index = None /\ msgs[m].doctype = None
                          /\ msgs[m].op \in {"index", "delete"}

\* What the claim says of the index: the ids requested for deletion are
\* absent, the ids requested for indexing are present with the record's
\* revision and body.
BatchRealized(e) ==
    \A m \in Mids :
        LET i == CHOOSE i \in Ids : str(i) = msgs[m].id
        IN IF msgs[m].op = "delete"
           THEN DocsOf(e, msgs[m].id) = {}
           ELSE /\ DocsOf(e, msgs[m].id) = {KeyOf(i)}
                /\ e[KeyOf(i)] = [version |-> store[i].revision_id,
                                  source |-> RecordAt(i, store[i].revision_id).json]

C11_NotFoundIsolated ==
    /\ [][\A c \in Consumers : \A m \in Mids :
            (/\ pc[c] = "fetch" /\ msgs[m].st = "ready"
             /\ Translate(decode(msgs[m])) = NoResultFound
             /\ actionsiter_message(c, m)) =>
                /\ pc'[c] = "fetch"
                /\ msgs'[m].st = "rejected"
                /\ \A n \in Mids \ {m} : msgs'[n] = msgs[n]
                /\ UNCHANGED <<stream, written, count, es>>]_vars
    /\ [][\A c \in Consumers :
            actionsiter_exhausted(c) =>
                \A m \in Mids : msgs[m].st \in {"acked", "rejected"}]_vars

\* C11 witness: a request was rejected for its missing record and the drain
\* has translated another request, which is delivered and waits for its ack.
C11_Witness ==
    /\ pc["c1"] = "yielded"
    /\ \E m, n \in Mids :
          /\ msgs[m].st = "rejected" /\ ~Resolved(m)
          /\ get_record(msgs[m].id) = NoResultFound
          /\ cur["c1"] = n /\ msgs[n].st = "unacked" /\ n \in Streamed("c1")

\* C12: a drain in which the engine refused a write (in this specification,
\* always a version conflict) is not ended by an error for it: it goes on and
\* returns.
C12_ConflictDoesNotAbort ==
    [][\A c \in Consumers :
        (pc[c] \in {"yielded", "done"} /\ count[c][2] > 0) => ~bulk_index_error(c)]_vars

\* The target the claim gives a schema identifier.
C13_Expected(sch) ==
    IF sch = "articles-v1.0.0.json" THEN ArticlesTarget
    ELSE <<INDEXER_DEFAULT_INDEX, INDEXER_DEFAULT_DOCTYPE>>

\* C13: for every record the resolver returns the pair its schema maps to when
\* the mapping has both index and doctype, and the configured default pair, as
\* a whole, in every other case (no schema, unknown schema, a mapping with
\* only one of the two); every document written sits in the target its
\* schema resolves to.
C13_ResolverFallsBack ==
    /\ \A record \in ResolverRecords :
          /\ _record_to_index(record) = C13_Expected(record.json.schema)
          /\ LET t == schema_to_index(record.json.schema)
             IN (Truthy(t[1]) /\ Truthy(t[2])) => _record_to_index(record) = t
    /\ \A k \in EsKeys :
          es[k] # NoDoc => <<k[1], k[2]>> = C13_Expected(es[k].source.schema)

\* C13 witness: records whose schema maps to an index without a doctype, to a
\* doctype without an index, and to the known pair have been indexed, the
\* first two in the default target.
C13_Witness ==
    /\ es[<<"articles", "article", "1">>] # NoDoc
    /\ es[<<INDEXER_DEFAULT_INDEX, INDEXER_DEFAULT_DOCTYPE, "1">>] # NoDoc
    /\ es[<<INDEXER_DEFAULT_INDEX, INDEXER_DEFAULT_DOCTYPE, "1">>].source.schema
          = "authors-v1.0.0.json"
    /\ es[<<INDEXER_DEFAULT_INDEX, INDEXER_DEFAULT_DOCTYPE, "2">>] # NoDoc
    /\ es[<<INDEXER_DEFAULT_INDEX, INDEXER_DEFAULT_DOCTYPE, "2">>].source.schema
          = "drafts-v1.0.0.json"

\* The requests the claim has a publish operation add for ids: one per
\* identifier, in order, with the op fixed and no index or doctype.
C14_Published(ids, op) ==
    /\ Len(msgs') = Len(msgs) + Len(ids)
    /\ \A m \in Mids : msgs'[m] = msgs[m]
    /\ \A k \in 1..Len(ids) :
          /\ decode(msgs'[Len(msgs) + k])
               = [id |-> str(ids[k]), op |-> op, index |-> None, doctype |-> None]
          /\ msgs'[Len(msgs) + k].st = "ready"
    /\ UNCHANGED <<es, attempted, store, pc, cur, stream, written, count>>

\* C14: bulk_index(ids) and bulk_delete(ids) publish exactly one request per
\* identifier of ids, duplicates included and in the order of ids, with op
\* 'index' resp. 'delete', the identifier as a string and index and doctype
\* unset, whether or not the records exist; the index and the record store are
\* left alone.
C14_OneRequestPerId ==
    [][\A ids \in IdSeqs :
        /\ (Len(msgs') > Len(msgs) /\ bulk_index(ids)) => C14_Published(ids, "index")
        /\ (Len(msgs') > Len(msgs) /\ bulk_delete(ids)) => C14_Published(ids, "delete")]_vars

\* C14 witness: one call has published two delete requests for the same
\* identifier, whose record is not in the store; nothing was written.
C14_Witness ==
    /\ Len(msgs) = 2
    /\ \A m \in Mids :
          /\ decode(msgs[m]) = [id |-> "2", op |-> "delete", index |-> None, doctype |-> None]
          /\ msgs[m].st = "ready"
    /\ ~store[2].exists
    /\ \A k \in EsKeys : es[k] = NoDoc

\* The exchange, queue and routing key the claim has the indexer use.
C15_Exchange == IF exchange # None THEN exchange ELSE INDEXER_MQ_EXCHANGE
C15_Queue == IF queue # None THEN queue ELSE INDEXER_MQ_QUEUE
C15_RoutingKey == IF routing_key # None THEN routing_key ELSE INDEXER_MQ_ROUTING_KEY

\* C15: every request is published to the exchange and with the routing key
\* the indexer was constructed with, and a drain consumes from the queue, the
\* exchange and the routing key it was constructed with; the configured
\* defaults stand in only for the arguments not given.
C15_ExplicitQueueUsed ==
    /\ \A m \in Mids :
          msgs[m].exchange = C15_Exchange /\ msgs[m].routing_key = C15_RoutingKey
    /\ \A c \in Consumers :
          pc[c] # "idle" =>
              /\ mq_queue = C15_Queue
              /\ mq_exchange = C15_Exchange
              /\ mq_routing_key = C15_RoutingKey

\* C16: the translation of a delete request.  With index and doctype in the
\* payload the action targets that pair and is produced whether or not the
\* record exists, and it is acked when the generator is resumed.  Without
\* them the target is the resolver's for the record loaded, and when the
\* record is gone the request is rejected, no action is produced and the
\* index is left as it is.
C16_DeleteTarget ==
    [][\A c \in Consumers :
        /\ \A m \in Mids :
            (/\ pc[c] = "fetch" /\ msgs[m].st = "ready" /\ msgs[m].op = "delete"
             /\ actionsiter_message(c, m)) =>
                IF Resolved(m)
                THEN /\ stream'[c] = Append(stream[c],
                            [mid |-> m,
                             action |-> [_op_type |-> "delete", _index |-> msgs[m].index,
                                         _type |-> msgs[m].doctype, _id |-> msgs[m].id]])
                     /\ cur'[c] = m /\ pc'[c] = "yielded"
                ELSE IF get_record(msgs[m].id) = NoResultFound
                THEN /\ msgs'[m].st = "rejected"
                     /\ UNCHANGED <<stream, es>>
                ELSE LET t == _record_to_index(get_record(msgs[m].id))
                     IN stream'[c] = Append(stream[c],
                            [mid |-> m,
                             action |-> [_op_type |-> "delete", _index |-> t[1],
                                         _type |-> t[2], _id |-> msgs[m].id]])
        /\ (pc[c] = "yielded" /\ actionsiter_resume(c)) => msgs'[cur[c]].st = "acked"]_vars

\* C16 witness: of two delete requests for a record that is gone, the one
\* that carries its target was translated and acked, the other was rejected.
C16_Witness ==
    \E m, n \in Mids :
        /\ msgs[m].op = "delete" /\ Resolved(m)
        /\ msgs[m].st = "acked" /\ m \in Streamed("c1")
        /\ msgs[n].op = "delete" /\ ~Resolved(n) /\ msgs[n].id = msgs[m].id
        /\ msgs[n].st = "rejected" /\ ~msgs[n].yielded
        /\ get_record(msgs[m].id) = NoResultFound

\* C17: a delete carries no version.  The synchronous delete sends the
\* document id, index and doctype only, a bulk delete action holds the
\* operation, index, doctype and document id only, while index writes hold
\* version, version type and body as well; and a delete the engine is handed
\* removes the document whatever revision it is stored with.
C17_DeleteCarriesNoVersion ==
    /\ [](/\ \A i \in Ids : \A v \in Revs :
               /\ DOMAIN DeleteRequest(RecordAt(i, v)) = {"id", "index", "doctype"}
               /\ DOMAIN IndexRequest(RecordAt(i, v))
                    = {"id", "index", "doctype", "version", "version_type", "body"}
           /\ \A c \in Consumers : \A k \in 1..Len(stream[c]) :
               DOMAIN stream[c][k].action
                    = IF stream[c][k].action._op_type = "delete"
                      THEN {"_op_type", "_index", "_type", "_id"}
                      ELSE {"_op_type", "_index", "_type", "_id",
                            "_version", "_version_type", "_source"})
    /\ [][/\ \A i \in Ids :
              (/\ es[KeyOf(i)] # NoDoc /\ es'[KeyOf(i)] # NoDoc)
              => \A v \in Revs : ~delete(RecordAt(i, v))
           /\ \A c \in Consumers :
              (/\ pc[c] \in {"yielded", "done"}
               /\ written[c] < Len(stream[c])
               /\ NextAction(c)._op_type = "delete"
               /\ bulk_write(c)) => es'[ActionKey(NextAction(c))] = NoDoc]_vars

\* C17 witness: the document of record 1, indexed with revision 1, was removed
\* by a bulk delete action, which the engine counted as a deletion.
C17_Witness ==
    /\ attempted[KeyOf(1)] = 1
    /\ es[KeyOf(1)] = NoDoc
    /\ written["c1"] >= 1
    /\ stream["c1"][written["c1"]].action._op_type = "delete"
    /\ count["c1"][1] >= 1

\* C18: every request published has one of the four operation types (a call
\* of _bulk_op with another one publishes nothing), and the consumer
\* translates a request whose op is not 'delete', 'create' and 'update'
\* included, into the index action of the record.
C18_NonDeleteIsIndex ==
    /\ [](\A m \in Mids : msgs[m].op \in {"index", "create", "delete", "update"})
    /\ [][/\ \A ids \in IdSeqs : ~_bulk_op(ids, "upsert", None, None)
           /\ \A c \in Consumers : \A m \in Mids :
               (/\ pc[c] = "fetch" /\ msgs[m].st = "ready" /\ msgs[m].op # "delete"
                /\ get_record(msgs[m].id) # NoResultFound
                /\ actionsiter_message(c, m)) =>
                   LET a == stream'[c][Len(stream'[c])].action
                       record == get_record(msgs[m].id)
                   IN /\ Len(stream'[c]) = Len(stream[c]) + 1
                      /\ a._op_type = "index"
                      /\ a._id = msgs[m].id
                      /\ <<a._index, a._type>> = _record_to_index(record)
                      /\ a._version = record.revision_id
                      /\ a._source = _prepare_record(record)]_vars

\* C18 witness: a 'create' request and an 'update' request were translated
\* into index actions in one drain.
C18_Witness ==
    \E j, k \in 1..Len(stream["c1"]) :
        /\ msgs[stream["c1"][j].mid].op = "create"
        /\ msgs[stream["c1"][k].mid].op = "update"
        /\ stream["c1"][j].action._op_type = "index"
        /\ stream["c1"][k].action._op_type = "index"

\* C19: an error of the translation other than NoResultFound ends the drain:
\* the message being translated is neither acked nor rejected (it stays with
\* the transport, ready), the call is over, so that no other message is
\* consumed in it, and every other message keeps the ack or the reject it has.
C19_TranslationErrorAborts ==
    [][\A c \in Consumers : \A m \in Mids :
        (pc[c] = "fetch" /\ msgs[m].st = "ready" /\ actionsiter_raises(c, m)) =>
            /\ msgs'[m].st = "ready"
            /\ msgs'[m].acks = msgs[m].acks /\ msgs'[m].rejects = msgs[m].rejects
            /\ pc'[c] = "idle"
            /\ \A n \in Mids \ {m} : msgs'[n] = msgs[n]
            /\ UNCHANGED es]_vars

\* C19 witness: the translation of a request has raised and ended a drain
\* that had acked one request and rejected none of the two.
C19_Witness ==
    /\ pc["c1"] = "idle"
    /\ \E m, n \in Mids :
          /\ msgs[m].raised /\ msgs[m].st = "ready"
          /\ msgs[m].acks = 0 /\ msgs[m].rejects = 0
          /\ msgs[n].st = "acked" /\ ~msgs[n].raised

\* The messages the consumer is delivered.
Queued == {m \in Mids : Routed(msgs[m])}

\* C20: with nothing published during the drain and nothing raised but
\* NoResultFound (the engine has refused no item, so that the helper does not
\* raise), a call of process_bulk_queue ends, and it ends by returning; when
\* the consumer is closed and the call returns, every message of the queue is
\* acked or rejected and none is left ready or unacked.
C20_DrainReturns ==
    /\ (pc["c1"] # "idle") ~> (pc["c1"] = "idle" \/ count["c1"][2] > 0)
    /\ [][process_bulk_queue_return("c1") =>
            \A m \in Queued : msgs[m].st \in {"acked", "rejected"}]_vars

\* C20 witness: a call has returned from a queue of two requests, one of them
\* acked and the other rejected for a record that was gone.
C20_Witness ==
    /\ pc["c1"] = "idle"
    /\ Len(msgs) = 2
    /\ \E m, n \in Queued : msgs[m].st = "acked" /\ msgs[n].st = "rejected"
    /\ \A m \in Queued : msgs[m].st \in {"acked", "rejected"}

====
